---- MODULE Spec2Model ----
(***************************************************************************)
(* Cache-aside key/value engine over a relational store with TTL expiry,   *)
(* soft delete (tombstone) and a sampling expiry worker.                   *)
(*                                                                         *)
(* Modelled from internal/engine/engine.go (Engine), the cache package     *)
(* (Cache, Entry), internal/store/store.go (Store) and the expiry package  *)
(* (Worker).  Every SQL statement is one atomic step at the store; every   *)
(* sync.Map operation is one atomic step at the cache.  One clock `now`    *)
(* stands for time.Now() and for the database's NOW().                     *)
(***************************************************************************)
EXTENDS Integers, Sequences, FiniteSets, TLC

\* ------------------------------------------------------------------ bounds
MaxTime == 3
MaxTTL == 1
MaxCalls == 4
\* Engine calls made beside the expiry worker.
MaxWorkerCalls == 2

\* Worker configuration used in the model (expiry.Config).
SampleSize == 1
DeleteBatchSize == 1
\* ExpiryThreshold 0.25 as the fraction ThresholdNum / ThresholdDen.
ThresholdNum == 1
ThresholdDen == 4

Keys == {"k1", "k2"}
\* The key the concurrent callers contend on.
HotKeys == {"k1"}
Values == {"v1", "v2"}
Threads == {"t1", "t2"}
TTLs == 1..MaxTTL
\* Persistence failures a store call can raise.
Errors == {"ErrConnDone"}
NoErr == "nil"
StoreErrs == {NoErr} \cup Errors

\* ------------------------------------------------------------------ data
\* A nil *time.Time / NULL expires_at is the empty sequence, a timestamp t is <<t>>.
NoTime == <<>>
TombstoneTime == 0

VARIABLES
    now,        \* wall clock
    rows,       \* table kv: key -> [value, expires_at], one row per key
    cache,      \* Cache.data: key -> [Value, ExpiresAt]
    th,         \* each caller thread's position inside an Engine call
    calls,      \* number of Engine calls started
    ret,        \* the Engine call that returned last, with its result
    lastWrite,  \* history: per key, the last write call that returned successfully
    delDone,    \* history: per key, a Delete returned and no Set/SetWithTTL overlapped or followed it
    passed,     \* history: per key, the values passed to Set/SetWithTTL so far
    committed,  \* history: per key, every row the store has held
    wpc,        \* Worker goroutine: "new", "select", "sample", "decide", "clean", "stopped"
    tickC,      \* ticker.C holds a tick (channel of capacity 1)
    stopCh,     \* Worker.stopCh: "open" or "closed"
    wloc        \* runCycle's locals: total, expired

vars == <<now, rows, cache, th, calls, ret, lastWrite, delDone, passed, committed,
          wpc, tickC, stopCh, wloc>>

hist == <<lastWrite, delDone, passed, committed>>
worker == <<wpc, tickC, stopCh, wloc>>

Min(a, b) == IF a <= b THEN a ELSE b

\* ------------------------------------------------------------------ cache
Entry(value, expiresAt) == [Value |-> value, ExpiresAt |-> expiresAt]

\* Mutant of CacheSet: an overwrite stores the new value beside the old expiry.
CacheSetTorn(c, key, value, expiresAt) ==
    [k \in DOMAIN c \cup {key} |->
        IF k = key
        THEN Entry(value, IF key \in DOMAIN c THEN c[key].ExpiresAt ELSE expiresAt)
        ELSE c[k]]

CacheSet(c, key, value, expiresAt) ==
    [k \in DOMAIN c \cup {key} |-> IF k = key THEN Entry(value, expiresAt) ELSE c[k]]

CacheDelete(c, key) == [k \in DOMAIN c \ {key} |-> c[k]]

\* time.Now().After(*entry.ExpiresAt)
IsExpired(entry, t) ==
    IF entry.ExpiresAt = NoTime THEN FALSE ELSE t > entry.ExpiresAt[1]

\* ------------------------------------------------------------------ store
Row(value, expiresAt) == [value |-> value, expires_at |-> expiresAt]

\* WHERE ... (expires_at IS NULL OR expires_at > NOW())
Alive(row, t) ==
    IF row.expires_at = NoTime THEN TRUE ELSE row.expires_at[1] > t

\* The row Store.Get returns, <<>> for sql.ErrNoRows.
StoreGet(r, key, t) ==
    IF key \in DOMAIN r /\ Alive(r[key], t) THEN <<r[key]>> ELSE <<>>

Upsert(r, key, row) ==
    [k \in DOMAIN r \cup {key} |-> IF k = key THEN row ELSE r[k]]

\* Mutant of StoreSet: ON CONFLICT updates the value only and keeps the old expires_at.
StoreSetKeepsExpiry(r, key, value) ==
    IF key \in DOMAIN r
    THEN [r EXCEPT ![key].value = value]
    ELSE Upsert(r, key, Row(value, NoTime))

\* Mutant of StoreSet: ON CONFLICT DO NOTHING, an existing row is left as it is.
StoreSetInsertOnly(r, key, value) ==
    IF key \in DOMAIN r THEN r ELSE Upsert(r, key, Row(value, NoTime))

StoreSet(r, key, value) == Upsert(r, key, Row(value, NoTime))

\* expiresAt := time.Now().Add(ttlSeconds * time.Second)
ExpiresAtFor(t, ttlSeconds) == t + ttlSeconds

StoreSetWithTTL(r, key, value, expiresAt) == Upsert(r, key, Row(value, <<expiresAt>>))

\* Mutant of SoftDelete: the update clears expires_at instead of writing the tombstone.
SoftDeleteClearsExpiry(r, key) ==
    [k \in DOMAIN r |-> IF k = key THEN [r[k] EXCEPT !.expires_at = NoTime] ELSE r[k]]

\* Mutant of SoftDelete: the row is deleted, not updated.
SoftDeleteRemovesRow(r, key) == [k \in DOMAIN r \ {key} |-> r[k]]

\* Mutant of SoftDelete: an upsert, a tombstone row is inserted when the key has no row.
SoftDeleteUpserts(r, key) ==
    [k \in DOMAIN r \cup {key} |->
        IF k = key
        THEN Row(IF key \in DOMAIN r THEN r[key].value ELSE "", <<TombstoneTime>>)
        ELSE r[k]]

\* UPDATE kv SET expires_at = TombstoneTime WHERE key = $2
SoftDelete(r, key) ==
    [k \in DOMAIN r |->
        IF k = key THEN [r[k] EXCEPT !.expires_at = <<TombstoneTime>>] ELSE r[k]]

\* DELETE FROM kv WHERE key = $1
HardDelete(r, key) == [k \in DOMAIN r \ {key} |-> r[k]]

\* Mutant of Reclaimable: rows without an expiry marker are selected too.
ReclaimableOrPermanent(r, t) ==
    {k \in DOMAIN r : r[k].expires_at = NoTime \/ r[k].expires_at[1] <= t}

\* Rows HardDeleteBatch may remove: expires_at IS NOT NULL AND expires_at <= NOW().
Reclaimable(r, t) ==
    {k \in DOMAIN r : r[k].expires_at # NoTime /\ r[k].expires_at[1] <= t}

\* Mutant of BatchChoices: the subquery has no LIMIT, every reclaimable row is selected.
BatchChoicesUnlimited(r, t, limit) == {Reclaimable(r, t)}

\* The key sets the subquery ... LIMIT $1 can select (no ORDER BY: any such rows).
BatchChoices(r, t, limit) ==
    {S \in SUBSET Reclaimable(r, t) :
        Cardinality(S) = Min(limit, Cardinality(Reclaimable(r, t)))}

\* DELETE FROM kv WHERE key IN (...)
HardDeleteBatch(r, S) == [k \in DOMAIN r \ S |-> r[k]]

\* Rows SampleExpiredKeys draws from: expires_at IS NOT NULL.
WithExpiry(r) == {k \in DOMAIN r : r[k].expires_at # NoTime}

\* ORDER BY random() LIMIT $1
SampleChoices(r, sampleSize) ==
    {S \in SUBSET WithExpiry(r) :
        Cardinality(S) = Min(sampleSize, Cardinality(WithExpiry(r)))}

\* Mutant of SampleExpiredKeys: a tombstone (epoch marker) is not counted as expired.
SampleExpiredKeysSkipsTombstones(r, S, t) ==
    [total |-> Cardinality(S),
     expired |-> Cardinality({k \in S : /\ t > r[k].expires_at[1]
                                        /\ r[k].expires_at[1] # TombstoneTime})]

\* total++ ; if now.After(expiresAt) { expired++ }
SampleExpiredKeys(r, S, t) ==
    [total |-> Cardinality(S),
     expired |-> Cardinality({k \in S : t > r[k].expires_at[1]})]

\* ------------------------------------------------------------------ engine
Idle == [pc |-> "idle", op |-> "none", key |-> "", value |-> "", exp |-> NoTime,
         err |-> NoErr, flag |-> FALSE]

\* ret holds a result only in the state a call returns into; raised is the error the
\* call's store operation gave, returned or only logged.
NoRet == [op |-> "none", key |-> "", val |-> <<>>, err |-> NoErr, raised |-> NoErr,
          src |-> "none", afterDel |-> FALSE]

NoWrite == [op |-> "none", value |-> "", exp |-> NoTime]

AllIdle == \A t \in Threads : th[t].pc = "idle"

\* Some thread other than t is inside a Set/SetWithTTL on key.
SetInFlight(t, key) ==
    \E u \in Threads \ {t} : th[u].op \in {"Set", "SetWithTTL"} /\ th[u].key = key

\* History of the rows the store has held.
Commit(c, r) == [k \in Keys |-> c[k] \cup (IF k \in DOMAIN r THEN {r[k]} ELSE {})]

\* A call of thread t returns: the thread is idle again and ret holds the result.
Return(t, op, key, val, err, raised, src, afterDel) ==
    /\ th' = [th EXCEPT ![t] = Idle]
    /\ ret' = [op |-> op, key |-> key, val |-> val, err |-> err, raised |-> raised,
               src |-> src, afterDel |-> afterDel]

\* A Set/SetWithTTL on key overlaps every Delete of key that is in flight.
OverlapDeletes(f, t, key) ==
    [u \in Threads |->
        IF u # t /\ f[u].op = "Delete" /\ f[u].key = key
        THEN [f[u] EXCEPT !.flag = FALSE] ELSE f[u]]

\* Engine.Get, step 1: cache lookup and expiry check.
GetLookup(t, key) ==
    /\ th[t].pc = "idle"
    /\ calls < MaxCalls
    /\ calls' = calls + 1
    /\ IF key \in DOMAIN cache
       THEN IF IsExpired(cache[key], now)
            THEN /\ th' = [th EXCEPT ![t] = [Idle EXCEPT !.pc = "get_softdel", !.op = "Get",
                                 !.key = key, !.flag = delDone[key]]]
                 /\ ret' = NoRet
            ELSE Return(t, "Get", key, <<cache[key].Value>>, NoErr, NoErr, "cache",
                        delDone[key])
       ELSE /\ th' = [th EXCEPT ![t] = [Idle EXCEPT !.pc = "get_db", !.op = "Get",
                            !.key = key, !.flag = delDone[key]]]
            /\ ret' = NoRet
    /\ UNCHANGED <<now, rows, cache, lastWrite, delDone, passed, committed, worker>>

\* Mutant of GetSoftDelete: the expired key is hard-deleted on the read path.
GetHardDelete(t) ==
    /\ th[t].pc = "get_softdel"
    /\ \E err \in StoreErrs :
          rows' = IF err = NoErr THEN HardDelete(rows, th[t].key) ELSE rows
    /\ committed' = Commit(committed, rows')
    /\ th' = [th EXCEPT ![t].pc = "get_cachedel"]
    /\ ret' = NoRet
    /\ UNCHANGED <<now, cache, calls, lastWrite, delDone, passed, worker>>

\* Mutant of GetSoftDelete: a SoftDelete failure is returned to the caller.
GetSoftDeletePropagates(t) ==
    /\ th[t].pc = "get_softdel"
    /\ \E err \in StoreErrs :
          IF err = NoErr
          THEN /\ rows' = SoftDelete(rows, th[t].key)
               /\ th' = [th EXCEPT ![t].pc = "get_cachedel"]
               /\ ret' = NoRet
          ELSE /\ rows' = rows
               /\ Return(t, "Get", th[t].key, <<>>, err, err, "cache",
                         th[t].flag /\ delDone[th[t].key])
    /\ committed' = Commit(committed, rows')
    /\ UNCHANGED <<now, cache, calls, lastWrite, delDone, passed, worker>>

\* Engine.Get, expired cache entry: best-effort Store.SoftDelete, a failure is only logged.
GetSoftDelete(t) ==
    /\ th[t].pc = "get_softdel"
    /\ \E err \in StoreErrs :
          /\ rows' = IF err = NoErr THEN SoftDelete(rows, th[t].key) ELSE rows
          /\ th' = [th EXCEPT ![t].pc = "get_cachedel", ![t].err = err]
    /\ committed' = Commit(committed, rows')
    /\ ret' = NoRet
    /\ UNCHANGED <<now, cache, calls, lastWrite, delDone, passed, worker>>

\* Engine.Get, expired cache entry: cache.Delete and return nil.
GetCacheDelete(t) ==
    /\ th[t].pc = "get_cachedel"
    /\ cache' = CacheDelete(cache, th[t].key)
    /\ Return(t, "Get", th[t].key, <<>>, NoErr, th[t].err, "cache",
              th[t].flag /\ delDone[th[t].key])
    /\ UNCHANGED <<now, rows, calls, lastWrite, delDone, passed, committed, worker>>

\* Engine.Get, cache miss: Store.Get.
GetStore(t) ==
    /\ th[t].pc = "get_db"
    /\ \E err \in StoreErrs :
          IF err # NoErr
          THEN Return(t, "Get", th[t].key, <<>>, err, err, "db",
                      th[t].flag /\ delDone[th[t].key])
          ELSE LET found == StoreGet(rows, th[t].key, now) IN
               IF found = <<>>
               THEN Return(t, "Get", th[t].key, <<>>, NoErr, NoErr, "db",
                           th[t].flag /\ delDone[th[t].key])
               ELSE /\ th' = [th EXCEPT ![t].pc = "get_populate",
                                        ![t].value = found[1].value,
                                        ![t].exp = found[1].expires_at]
                    /\ ret' = NoRet
    /\ UNCHANGED <<now, rows, cache, calls, lastWrite, delDone, passed, committed, worker>>

\* Mutant of GetPopulate: the cache is populated without the row's expiry.
GetPopulateNoExpiry(t) ==
    /\ th[t].pc = "get_populate"
    /\ cache' = CacheSet(cache, th[t].key, th[t].value, NoTime)
    /\ Return(t, "Get", th[t].key, <<th[t].value>>, NoErr, NoErr, "db",
              th[t].flag /\ delDone[th[t].key])
    /\ UNCHANGED <<now, rows, calls, lastWrite, delDone, passed, committed, worker>>

\* Engine.Get, cache miss: populate the cache and return the value.
GetPopulate(t) ==
    /\ th[t].pc = "get_populate"
    /\ cache' = CacheSet(cache, th[t].key, th[t].value, th[t].exp)
    /\ Return(t, "Get", th[t].key, <<th[t].value>>, NoErr, NoErr, "db",
              th[t].flag /\ delDone[th[t].key])
    /\ UNCHANGED <<now, rows, calls, lastWrite, delDone, passed, committed, worker>>

\* Mutant of Set: the cache is updated before the store's result is looked at.
SetCacheFirst(t, key, value) ==
    /\ th[t].pc = "idle"
    /\ calls < MaxCalls
    /\ calls' = calls + 1
    /\ passed' = [passed EXCEPT ![key] = @ \cup {value}]
    /\ delDone' = [delDone EXCEPT ![key] = FALSE]
    /\ cache' = CacheSet(cache, key, value, NoTime)
    /\ \E err \in StoreErrs :
          IF err # NoErr
          THEN /\ th' = OverlapDeletes(th, t, key)
               /\ ret' = [NoRet EXCEPT !.op = "Set", !.key = key, !.err = err,
                                       !.raised = err]
               /\ UNCHANGED <<rows, lastWrite>>
          ELSE /\ rows' = StoreSet(rows, key, value)
               /\ th' = [OverlapDeletes(th, t, key) EXCEPT
                            ![t] = [Idle EXCEPT !.pc = "set_cache", !.op = "Set",
                                    !.key = key, !.value = value]]
               /\ ret' = NoRet
               /\ lastWrite' = [lastWrite EXCEPT ![key] =
                                   [op |-> "Set", value |-> value, exp |-> NoTime]]
    /\ committed' = Commit(committed, rows')
    /\ UNCHANGED <<now, worker>>

\* Engine.Set, step 1: Store.Set; on failure return the error.
Set(t, key, value) ==
    /\ th[t].pc = "idle"
    /\ calls < MaxCalls
    /\ calls' = calls + 1
    /\ passed' = [passed EXCEPT ![key] = @ \cup {value}]
    /\ delDone' = [delDone EXCEPT ![key] = FALSE]
    /\ \E err \in StoreErrs :
          IF err # NoErr
          THEN /\ th' = OverlapDeletes(th, t, key)
               /\ ret' = [NoRet EXCEPT !.op = "Set", !.key = key, !.err = err,
                                       !.raised = err]
               /\ UNCHANGED <<rows, lastWrite>>
          ELSE /\ rows' = StoreSet(rows, key, value)
               /\ th' = [OverlapDeletes(th, t, key) EXCEPT
                            ![t] = [Idle EXCEPT !.pc = "set_cache", !.op = "Set",
                                    !.key = key, !.value = value]]
               /\ ret' = NoRet
               /\ lastWrite' = [lastWrite EXCEPT ![key] =
                                   [op |-> "Set", value |-> value, exp |-> NoTime]]
    /\ committed' = Commit(committed, rows')
    /\ UNCHANGED <<now, cache, worker>>

\* Engine.SetWithTTL, step 1: Store.SetWithTTL; on failure return the error.
SetWithTTL(t, key, value, ttlSeconds) ==
    /\ th[t].pc = "idle"
    /\ calls < MaxCalls
    /\ calls' = calls + 1
    /\ passed' = [passed EXCEPT ![key] = @ \cup {value}]
    /\ delDone' = [delDone EXCEPT ![key] = FALSE]
    /\ \E err \in StoreErrs :
          LET expiresAt == ExpiresAtFor(now, ttlSeconds) IN
          IF err # NoErr
          THEN /\ th' = OverlapDeletes(th, t, key)
               /\ ret' = [NoRet EXCEPT !.op = "SetWithTTL", !.key = key, !.err = err,
                                       !.raised = err]
               /\ UNCHANGED <<rows, lastWrite>>
          ELSE /\ rows' = StoreSetWithTTL(rows, key, value, expiresAt)
               /\ th' = [OverlapDeletes(th, t, key) EXCEPT
                            ![t] = [Idle EXCEPT !.pc = "set_cache", !.op = "SetWithTTL",
                                    !.key = key, !.value = value, !.exp = <<expiresAt>>]]
               /\ ret' = NoRet
               /\ lastWrite' = [lastWrite EXCEPT ![key] =
                                   [op |-> "SetWithTTL", value |-> value,
                                    exp |-> <<expiresAt>>]]
    /\ committed' = Commit(committed, rows')
    /\ UNCHANGED <<now, cache, worker>>

\* Engine.Set / Engine.SetWithTTL, step 2: cache.Set and return nil.
SetCache(t) ==
    /\ th[t].pc = "set_cache"
    /\ cache' = CacheSet(cache, th[t].key, th[t].value, th[t].exp)
    /\ Return(t, th[t].op, th[t].key, <<>>, NoErr, NoErr, "none", FALSE)
    /\ UNCHANGED <<now, rows, calls, lastWrite, delDone, passed, committed, worker>>

\* Engine.Delete, step 1: Store.SoftDelete; on failure return the error.
Delete(t, key) ==
    /\ th[t].pc = "idle"
    /\ calls < MaxCalls
    /\ calls' = calls + 1
    /\ \E err \in StoreErrs :
          IF err # NoErr
          THEN /\ th' = th
               /\ ret' = [NoRet EXCEPT !.op = "Delete", !.key = key, !.err = err,
                                       !.raised = err]
               /\ UNCHANGED <<rows, lastWrite>>
          ELSE /\ rows' = SoftDelete(rows, key)
               /\ th' = [th EXCEPT ![t] = [Idle EXCEPT !.pc = "del_cache", !.op = "Delete",
                                           !.key = key, !.flag = ~SetInFlight(t, key)]]
               /\ ret' = NoRet
               /\ lastWrite' = [lastWrite EXCEPT ![key] = [NoWrite EXCEPT !.op = "Delete"]]
    /\ committed' = Commit(committed, rows')
    /\ UNCHANGED <<now, cache, delDone, passed, worker>>

\* Engine.Delete, step 2: cache.Delete and return nil.
DeleteCache(t) ==
    /\ th[t].pc = "del_cache"
    /\ cache' = CacheDelete(cache, th[t].key)
    /\ Return(t, "Delete", th[t].key, <<>>, NoErr, NoErr, "none", FALSE)
    /\ delDone' = [delDone EXCEPT ![th[t].key] = @ \/ th[t].flag]
    /\ UNCHANGED <<now, rows, calls, lastWrite, passed, committed, worker>>

\* ------------------------------------------------------------------ environment
\* The clock advances.
Tick ==
    /\ now < MaxTime
    /\ now' = now + 1
    /\ ret' = NoRet
    /\ UNCHANGED <<rows, cache, th, calls, hist, worker>>

\* The clock advances between Engine calls.
TickIdle == AllIdle /\ Tick

\* Cache.Delete called on the cache itself (Engine.GetCache): the entry is dropped,
\* the next read of key is cache-cold.
CacheDrop(key) ==
    /\ key \in DOMAIN cache
    /\ cache' = CacheDelete(cache, key)
    /\ ret' = NoRet
    /\ UNCHANGED <<now, rows, th, calls, hist, worker>>

\* Store.HardDelete called on the store itself: an explicit purge of one row.
PurgeRow(key) ==
    /\ key \in DOMAIN rows
    /\ rows' = HardDelete(rows, key)
    /\ lastWrite' = [lastWrite EXCEPT ![key] = [NoWrite EXCEPT !.op = "HardDelete"]]
    /\ ret' = NoRet
    /\ UNCHANGED <<now, cache, th, calls, delDone, passed, committed, worker>>

\* ------------------------------------------------------------------ expiry worker
NoLocals == [total |-> 0, expired |-> 0]

\* ratio < ExpiryThreshold, with ratio = expired / total
BelowThreshold(total, expired) == expired * ThresholdDen < ThresholdNum * total

\* Worker.Start: the goroutine is launched and waits in its select.
Start ==
    /\ wpc = "new"
    /\ wpc' = "select"
    /\ ret' = NoRet
    /\ UNCHANGED <<now, rows, cache, th, calls, hist, tickC, stopCh, wloc>>

\* The ticker delivers a tick into ticker.C.
TimerFire ==
    /\ wpc \notin {"new", "stopped"}
    /\ ~tickC
    /\ tickC' = TRUE
    /\ ret' = NoRet
    /\ UNCHANGED <<now, rows, cache, th, calls, hist, wpc, stopCh, wloc>>

\* Mutant of SelectTick: the tick is received and the cycle launched beside the loop, as
\* with `go w.runCycle()`, so a tick is taken while a cycle is running.
SelectTickAsync ==
    /\ wpc \in {"select", "sample", "decide", "clean"}
    /\ tickC
    /\ tickC' = FALSE
    /\ wpc' = "sample"
    /\ ret' = NoRet
    /\ UNCHANGED <<now, rows, cache, th, calls, hist, stopCh, wloc>>

\* select, case <-ticker.C: runCycle begins.
SelectTick ==
    /\ wpc = "select"
    /\ tickC
    /\ tickC' = FALSE
    /\ wpc' = "sample"
    /\ ret' = NoRet
    /\ UNCHANGED <<now, rows, cache, th, calls, hist, stopCh, wloc>>

\* Mutant of SelectStop: the stop case is taken only when no tick is pending, as with a
\* select that serves ticker.C first.
SelectStopAfterTicks ==
    /\ wpc = "select"
    /\ stopCh = "closed"
    /\ ~tickC
    /\ wpc' = "stopped"
    /\ ret' = NoRet
    /\ UNCHANGED <<now, rows, cache, th, calls, hist, tickC, stopCh, wloc>>

\* select, case <-w.stopCh: the goroutine returns.
SelectStop ==
    /\ wpc = "select"
    /\ stopCh = "closed"
    /\ wpc' = "stopped"
    /\ ret' = NoRet
    /\ UNCHANGED <<now, rows, cache, th, calls, hist, tickC, stopCh, wloc>>

\* Worker.Stop: close(w.stopCh).
Stop ==
    /\ stopCh = "open"
    /\ stopCh' = "closed"
    /\ ret' = NoRet
    /\ UNCHANGED <<now, rows, cache, th, calls, hist, wpc, tickC, wloc>>

\* Mutant of Sample: a sampling error ends the worker loop, not only the cycle.
SampleFatal ==
    /\ wpc = "sample"
    /\ \E err \in StoreErrs :
          IF err # NoErr
          THEN /\ wpc' = "stopped" /\ wloc' = NoLocals
               /\ ret' = [NoRet EXCEPT !.op = "SampleExpiredKeys", !.err = err,
                                       !.raised = err]
          ELSE \E S \in SampleChoices(rows, SampleSize) :
                  /\ wloc' = SampleExpiredKeys(rows, S, now)
                  /\ wpc' = "decide"
                  /\ ret' = NoRet
    /\ UNCHANGED <<now, rows, cache, th, calls, hist, tickC, stopCh>>

\* runCycle, step 1: SampleExpiredKeys; an error is logged and ends the cycle.
Sample ==
    /\ wpc = "sample"
    /\ \E err \in StoreErrs :
          IF err # NoErr
          THEN /\ wpc' = "select" /\ wloc' = NoLocals
               /\ ret' = [NoRet EXCEPT !.op = "SampleExpiredKeys", !.err = err,
                                       !.raised = err]
          ELSE \E S \in SampleChoices(rows, SampleSize) :
                  /\ wloc' = SampleExpiredKeys(rows, S, now)
                  /\ wpc' = "decide"
                  /\ ret' = NoRet
    /\ UNCHANGED <<now, rows, cache, th, calls, hist, tickC, stopCh>>

\* runCycle, step 2: empty sample or ratio below the threshold skips the cleanup.
Decide ==
    /\ wpc = "decide"
    /\ IF wloc.total = 0 \/ BelowThreshold(wloc.total, wloc.expired)
       THEN wpc' = "select" /\ wloc' = NoLocals
       ELSE wpc' = "clean" /\ wloc' = wloc
    /\ ret' = NoRet
    /\ UNCHANGED <<now, rows, cache, th, calls, hist, tickC, stopCh>>

\* Mutant of Clean: the cycle also drops the cache entries of the rows it removed,
\* through the Worker's cache field.
CleanEvicts ==
    /\ wpc = "clean"
    /\ \E err \in StoreErrs :
          IF err # NoErr
          THEN /\ rows' = rows
               /\ cache' = cache
               /\ ret' = [NoRet EXCEPT !.op = "runCycle", !.err = err, !.raised = err]
          ELSE \E S \in BatchChoices(rows, now, DeleteBatchSize) :
                  /\ rows' = HardDeleteBatch(rows, S)
                  /\ cache' = [k \in DOMAIN cache \ S |-> cache[k]]
                  /\ ret' = [NoRet EXCEPT !.op = "runCycle", !.val = <<Cardinality(S)>>]
    /\ wpc' = "select"
    /\ wloc' = NoLocals
    /\ UNCHANGED <<now, th, calls, hist, tickC, stopCh>>

\* runCycle, step 3: HardDeleteBatch(DeleteBatchSize); the cycle ends.
Clean ==
    /\ wpc = "clean"
    /\ \E err \in StoreErrs :
          IF err # NoErr
          THEN /\ rows' = rows
               /\ ret' = [NoRet EXCEPT !.op = "runCycle", !.err = err, !.raised = err]
          ELSE \E S \in BatchChoices(rows, now, DeleteBatchSize) :
                  /\ rows' = HardDeleteBatch(rows, S)
                  /\ ret' = [NoRet EXCEPT !.op = "runCycle", !.val = <<Cardinality(S)>>]
    /\ wpc' = "select"
    /\ wloc' = NoLocals
    /\ UNCHANGED <<now, cache, th, calls, hist, tickC, stopCh>>

\* Mutant of ForceCleanup: the batch is issued only when a sample reaches the threshold,
\* as in runCycle.
ForceCleanupSampled ==
    /\ \E err \in StoreErrs :
          IF err # NoErr
          THEN /\ rows' = rows
               /\ ret' = [NoRet EXCEPT !.op = "ForceCleanup", !.val = <<0>>, !.err = err,
                                       !.raised = err]
          ELSE \E C \in SampleChoices(rows, SampleSize) :
                  LET c == SampleExpiredKeys(rows, C, now) IN
                  IF c.total = 0 \/ BelowThreshold(c.total, c.expired)
                  THEN /\ rows' = rows
                       /\ ret' = [NoRet EXCEPT !.op = "ForceCleanup", !.val = <<0>>]
                  ELSE \E S \in BatchChoices(rows, now, DeleteBatchSize) :
                          /\ rows' = HardDeleteBatch(rows, S)
                          /\ ret' = [NoRet EXCEPT !.op = "ForceCleanup",
                                                  !.val = <<Cardinality(S)>>]
    /\ UNCHANGED <<now, cache, th, calls, hist, worker>>

\* Worker.ForceCleanup: one HardDeleteBatch(DeleteBatchSize), its count and error returned.
ForceCleanup ==
    /\ \E err \in StoreErrs :
          IF err # NoErr
          THEN /\ rows' = rows
               /\ ret' = [NoRet EXCEPT !.op = "ForceCleanup", !.val = <<0>>, !.err = err,
                                       !.raised = err]
          ELSE \E S \in BatchChoices(rows, now, DeleteBatchSize) :
                  /\ rows' = HardDeleteBatch(rows, S)
                  /\ ret' = [NoRet EXCEPT !.op = "ForceCleanup", !.val = <<Cardinality(S)>>]
    /\ UNCHANGED <<now, cache, th, calls, hist, worker>>

WorkerStep ==
    \/ Start
    \/ TimerFire
    \/ SelectTick
    \/ SelectStop
    \/ Stop
    \/ Sample
    \/ Decide
    \/ Clean

\* ------------------------------------------------------------------ specifications
\* One Engine call step of thread t, keys and values drawn from K and V.
EngineStep(t, K, V) ==
    \/ \E key \in K : GetLookup(t, key)
    \/ GetSoftDelete(t)
    \/ GetCacheDelete(t)
    \/ GetStore(t)
    \/ GetPopulate(t)
    \/ \E key \in K, value \in V : Set(t, key, value)
    \/ \E key \in K, value \in V, ttl \in TTLs : SetWithTTL(t, key, value, ttl)
    \/ SetCache(t)
    \/ \E key \in K : Delete(t, key)
    \/ DeleteCache(t)

Init ==
    /\ now = 1
    /\ rows = <<>>
    /\ cache = <<>>
    /\ th = [t \in Threads |-> Idle]
    /\ calls = 0
    /\ ret = NoRet
    /\ lastWrite = [k \in Keys |-> NoWrite]
    /\ delDone = [k \in Keys |-> FALSE]
    /\ passed = [k \in Keys |-> {}]
    /\ committed = [k \in Keys |-> {}]
    /\ wpc = "new"
    /\ tickC = FALSE
    /\ stopCh = "open"
    /\ wloc = NoLocals

\* Concurrent callers contending on the hot key.
Next ==
    \/ \E t \in Threads : EngineStep(t, HotKeys, Values)
    \/ Tick

Spec == Init /\ [][Next]_vars

\* One caller on the hot key: its Engine calls follow one another, each within one
\* clock instant; entries are dropped from the cache, rows purged and batches forced
\* in between.
NextSeq ==
    \/ EngineStep("t1", HotKeys, Values)
    \/ TickIdle
    \/ \E key \in Keys : CacheDrop(key)
    \/ \E key \in Keys : PurgeRow(key)
    \/ ForceCleanup

SeqSpec == Init /\ [][NextSeq]_vars

\* The expiry worker beside one caller writing and reading all keys.
NextWorker ==
    \/ EngineStep("t1", Keys, {"v1"}) /\ calls' <= MaxWorkerCalls
    \/ TickIdle
    \/ WorkerStep
    \/ ForceCleanup

WorkerSpec == Init /\ [][NextWorker]_vars

\* The worker beside one caller, with the scheduling the runtime gives the worker
\* goroutine: a store call of a cycle in progress returns (weak fairness), and a select
\* whose stop case is ready again and again takes it in the end, because Go chooses
\* among the ready cases of a select uniformly at random (strong fairness).
StopSpec ==
    /\ Init
    /\ [][NextWorker]_vars
    /\ WF_vars(Sample)
    /\ WF_vars(Decide)
    /\ WF_vars(Clean)
    /\ SF_vars(SelectStop)

\* The time by which every deadline set up to MaxTime has passed.
Horizon == MaxTime + MaxTTL + 1

\* The clock advances between Engine calls, on past every deadline.
Elapse ==
    /\ AllIdle
    /\ now < Horizon
    /\ now' = now + 1
    /\ ret' = NoRet
    /\ UNCHANGED <<rows, cache, th, calls, hist, worker>>

\* The worker kept running beside one caller: Stop is never called, the worker's store
\* calls raise no error, and the caller makes its calls up to MaxTime.
NextProgress ==
    \/ EngineStep("t1", Keys, {"v1"}) /\ calls' <= MaxWorkerCalls /\ now <= MaxTime
    \/ Elapse
    \/ Start
    \/ TimerFire
    \/ SelectTick
    \/ Sample /\ ret'.raised = NoErr
    \/ Decide
    \/ Clean /\ ret'.raised = NoErr

\* Time passes, a call in progress returns, the ticker keeps firing and the worker
\* goroutine keeps being scheduled: its select takes the tick (the stop case is never
\* ready) and each store call of a cycle returns without error.
ProgressSpec ==
    /\ Init
    /\ [][NextProgress]_vars
    /\ WF_vars(Elapse)
    /\ WF_vars(~AllIdle /\ EngineStep("t1", Keys, {"v1"}))
    /\ WF_vars(TimerFire)
    /\ WF_vars(SelectTick)
    /\ WF_vars(Sample /\ ret'.raised = NoErr)
    /\ WF_vars(Decide)
    /\ WF_vars(Clean /\ ret'.raised = NoErr)

\* ------------------------------------------------------------------ properties
WriteOps == {"Set", "SetWithTTL", "Delete"}
BatchOps == {"runCycle", "ForceCleanup"}

\* C1 (as stated; SeqSpec): after SetWithTTL(k, v, ttl) at t0 with no later write to k,
\* a Get(k) at a time before t0+ttl returns v and a Get(k) at a time at or after t0+ttl
\* returns Absent, from the cache and from the store alike.
C1_GetFollowsDeadline ==
    (ret.op = "Get" /\ ret.err = NoErr /\ lastWrite[ret.key].op = "SetWithTTL") =>
        IF now < lastWrite[ret.key].exp[1]
        THEN ret.val = <<lastWrite[ret.key].value>>
        ELSE ret.val = <<>>

\* C2 (SeqSpec): Delete(k) returns no error unless the store raised one, a Delete that
\* has returned leaves a state on which a second Delete(k) changes neither store nor
\* cache, and a Get(k) whose last preceding write to k is a Delete returns Absent.
C2_DeleteIdempotent ==
    /\ (ret.op = "Delete" /\ ret.raised = NoErr) =>
          /\ ret.err = NoErr
          /\ SoftDelete(rows, ret.key) = rows
          /\ CacheDelete(cache, ret.key) = cache
    /\ (ret.op = "Get" /\ ret.err = NoErr /\ lastWrite[ret.key].op = "Delete") =>
          ret.val = <<>>

\* A Get returned Absent for a deleted key whose tombstoned row is still in the store.
C2_Witness ==
    /\ ret.op = "Get" /\ ret.err = NoErr /\ ret.val = <<>>
    /\ lastWrite[ret.key].op = "Delete"
    /\ ret.key \in DOMAIN rows
    /\ rows[ret.key].expires_at = <<TombstoneTime>>

\* C3 (as stated; Spec): a Get(k) that starts after a Delete(k) has returned, with no
\* Set/SetWithTTL on k overlapping or following that Delete, returns Absent.
C3_DeletedStaysAbsent ==
    (ret.op = "Get" /\ ret.err = NoErr /\ ret.afterDel) => ret.val = <<>>

\* C4 (SeqSpec): after Set(k, v) with no later write to k, every Get(k) that returns
\* without error returns v, on a cache hit and on a cache-cold read, at every time.
C4_SetThenGet ==
    (ret.op = "Get" /\ ret.err = NoErr /\ lastWrite[ret.key].op = "Set") =>
        ret.val = <<lastWrite[ret.key].value>>

\* A cache-cold Get, at a later time than the Set, returned the value from the store.
C4_Witness ==
    /\ ret.op = "Get" /\ ret.src = "db" /\ ret.val # <<>>
    /\ lastWrite[ret.key].op = "Set"
    /\ now > 1

\* Every entry that appears or changes in the cache is the (value, expiry) pair of one
\* Cache.Set in progress: an entry is never a mix of two writes.
EntryWrittenWhole ==
    \A k \in DOMAIN cache' :
        \/ k \in DOMAIN cache /\ cache'[k] = cache[k]
        \/ \E t \in Threads :
              /\ th[t].pc \in {"set_cache", "get_populate"}
              /\ th[t].key = k
              /\ cache'[k] = Entry(th[t].value, th[t].exp)

\* C5 (Spec): under any interleaving of concurrent callers, every Get(k) returns Absent
\* or a value some Set(k, .)/SetWithTTL(k, .) call was given before the Get returned, and
\* every cache entry a Get can observe was written whole by one Cache.Set.
C5_GetReturnsWrittenValue ==
    [][/\ (ret'.op = "Get" /\ ret'.val # <<>>) => ret'.val[1] \in passed'[ret'.key]
       /\ EntryWrittenWhole]_vars

\* A Get returned a value while another caller is inside a Set of the same key.
C5_Witness ==
    /\ ret.op = "Get" /\ ret.val # <<>>
    /\ \E t \in Threads : th[t].op = "Set" /\ th[t].key = ret.key
                          /\ th[t].value # ret.val[1]

\* C6 (Spec): when the store call of Set, SetWithTTL or Delete fails, the Engine call
\* returns the error the store raised and the step leaves the cache as it was.
C6_FailedWriteLeavesCache ==
    [][(ret'.op \in WriteOps /\ ret'.raised # NoErr) =>
          (ret'.err = ret'.raised /\ cache' = cache)]_vars

\* A Set failed at the store while the cache holds an entry for its key.
C6_Witness ==
    /\ ret.op = "Set" /\ ret.raised # NoErr /\ ret.err = ret.raised
    /\ ret.key \in DOMAIN cache

\* C7 (Spec): in every reachable state each cache entry of a key k is a (value, expiry)
\* pair the store has held as the row of k.
C7_CacheHoldsCommitted ==
    \A k \in DOMAIN cache : Row(cache[k].Value, cache[k].ExpiresAt) \in committed[k]

\* The cache holds an entry that is no longer the store's row: it was the row earlier.
C7_Witness ==
    \E k \in DOMAIN cache \cap DOMAIN rows :
        /\ Row(cache[k].Value, cache[k].ExpiresAt) # rows[k]
        /\ cache[k].ExpiresAt # NoTime

\* The step is a Store.Set / Store.SetWithTTL on key k that succeeded.
Overwritten(k) == lastWrite'[k] # lastWrite[k] /\ lastWrite'[k].op \in {"Set", "SetWithTTL"}

\* The step is a HardDeleteBatch or a HardDelete.
HardDeleted == ret'.op \in BatchOps \/ \E k \in Keys : PurgeRow(k)

\* The step is Engine.Delete's store call on key k, and it succeeded.
Deleted(k) == \E t \in Threads : th[t].pc = "idle" /\ th'[t].pc = "del_cache" /\ th'[t].key = k

\* C8 (as stated; SeqSpec): after Delete(k) on a key with a row, the row is still there
\* with expiry marker TombstoneTime, and stays so until a HardDeleteBatch or HardDelete
\* removes it.
C8_TombstoneUntilHardDelete ==
    [][\A k \in Keys :
          /\ (Deleted(k) /\ k \in DOMAIN rows) =>
                (k \in DOMAIN rows' /\ rows'[k].expires_at = <<TombstoneTime>>)
          /\ (k \in DOMAIN rows /\ rows[k].expires_at = <<TombstoneTime>>
                /\ lastWrite[k].op = "Delete") =>
                \/ k \in DOMAIN rows' /\ rows'[k] = rows[k]
                \/ k \notin DOMAIN rows' /\ HardDeleted]_vars

\* C8 (amended; SeqSpec): ... and stays so until a HardDeleteBatch or HardDelete removes
\* it or a later Set/SetWithTTL on k overwrites it; Delete never removes the row.
C8_TombstoneUntilHardDeleteOrSet ==
    [][\A k \in Keys :
          /\ (Deleted(k) /\ k \in DOMAIN rows) =>
                (k \in DOMAIN rows' /\ rows'[k].expires_at = <<TombstoneTime>>
                 /\ rows'[k].value = rows[k].value)
          /\ (k \in DOMAIN rows /\ rows[k].expires_at = <<TombstoneTime>>
                /\ lastWrite[k].op = "Delete") =>
                \/ k \in DOMAIN rows' /\ rows'[k] = rows[k]
                \/ k \notin DOMAIN rows' /\ HardDeleted
                \/ Overwritten(k)]_vars

\* A Delete returned and the row of its key is in the store, tombstoned.
C8_Witness ==
    /\ ret.op = "Delete" /\ ret.err = NoErr
    /\ ret.key \in DOMAIN rows
    /\ rows[ret.key].expires_at = <<TombstoneTime>>

\* C9 (WorkerSpec): a HardDeleteBatch, issued by a worker cycle or by ForceCleanup,
\* leaves every row whose expiry marker is absent or in the future in the store,
\* unchanged.
C9_BatchKeepsLiveRows ==
    [][ret'.op \in BatchOps =>
          \A k \in DOMAIN rows :
              Alive(rows[k], now) => (k \in DOMAIN rows' /\ rows'[k] = rows[k])]_vars

\* A worker cycle's batch removed a row while a permanent row stayed in the store.
C9_Witness ==
    /\ ret.op = "runCycle" /\ ret.val = <<1>>
    /\ \E k \in DOMAIN rows : rows[k].expires_at = NoTime

\* C10 (SeqSpec): no step of Engine.Get, Set, SetWithTTL or Delete removes a row; a step
\* that removes one is a HardDeleteBatch or a HardDelete.
C10_EngineNeverRemovesRows ==
    [][/\ (th' # th \/ calls' # calls) => DOMAIN rows \subseteq DOMAIN rows'
       /\ ~(DOMAIN rows \subseteq DOMAIN rows') => HardDeleted]_vars

\* A Get found an expired cache entry, soft-deleted the row and returned Absent: the row
\* is still in the store.
C10_Witness ==
    /\ ret.op = "Get" /\ ret.src = "cache" /\ ret.val = <<>>
    /\ ret.key \in DOMAIN rows
    /\ rows[ret.key].expires_at = <<TombstoneTime>>
    /\ lastWrite[ret.key].op = "SetWithTTL"

\* The expiry markers the cache and the store hold.
Markers ==
    {cache[k].ExpiresAt : k \in DOMAIN cache} \cup {rows[k].expires_at : k \in DOMAIN rows}

\* The data model's rule: logically present iff the marker is absent or strictly in the
\* future.
LogicallyPresent(m, t) == m = NoTime \/ m[1] > t

\* C11 (as stated; SeqSpec): for every expiry marker m held and the current time,
\* Cache.IsExpired on an entry with marker m is false exactly when Store.Get's filter
\* accepts a row with marker m, exactly when m is absent or m > now; at now = m both
\* treat the key as not logically present.
C11_SameLivenessPredicate ==
    \A m \in Markers :
        /\ ~IsExpired(Entry("v1", m), now) <=> Alive(Row("v1", m), now)
        /\ Alive(Row("v1", m), now) <=> LogicallyPresent(m, now)

\* With w the last write of a key: the key was never written (missing), w is a Delete
\* (tombstoned), or w is a SetWithTTL whose deadline is reached at time t (expired).
MissingTombstonedOrExpired(w, t) ==
    \/ w.op \in {"none", "Delete"}
    \/ w.op = "SetWithTTL" /\ w.exp[1] <= t

\* C12 (as stated; SeqSpec): a Get of a key that is missing, tombstoned or expired returns
\* (no value, no error) unless the store read failed; a Get returns an error only from
\* the store read on a cache miss, the error is the one the store raised, no value comes
\* with it and the cache is left as it was.
C12_GetAbsentOrStoreError ==
    [][ret'.op = "Get" =>
          /\ (ret'.raised = NoErr /\ MissingTombstonedOrExpired(lastWrite'[ret'.key], now')) =>
                (ret'.val = <<>> /\ ret'.err = NoErr)
          /\ ret'.raised = NoErr => ret'.err = NoErr
          /\ ret'.err # NoErr =>
                /\ ret'.src = "db"
                /\ ret'.err = ret'.raised
                /\ ret'.val = <<>>
                /\ cache' = cache]_vars

\* The worker loop calls runCycle in this step.
CycleBegins == wpc # "sample" /\ wpc' = "sample"

\* C13 (as stated; WorkerSpec): once Stop has returned (stopCh is closed) the worker loop
\* begins no cycle, whether it was waiting or inside a cycle at the Stop and whether or
\* not a tick is pending; a cycle in progress may run to its end.
C13_NoCycleAfterStop ==
    [][stopCh = "closed" => ~CycleBegins]_vars

\* A runCycle of the worker is in progress.
InCycle == wpc \in {"sample", "decide", "clean"}

\* C14 (WorkerSpec): a cycle begins only while no cycle is in progress, and it takes
\* exactly one tick out of ticker.C; a tick that arrives while a cycle is running is only
\* buffered: it changes neither the position nor the locals of the running cycle.
C14_CyclesNeverOverlap ==
    [][/\ CycleBegins => (~InCycle /\ wpc = "select" /\ tickC /\ ~tickC')
       /\ (InCycle /\ tickC' # tickC) =>
             (tickC' /\ wpc' = wpc /\ wloc' = wloc /\ rows' = rows)]_vars

\* A tick arrived while the cycle is at its batch delete.
C14_Witness == wpc = "clean" /\ tickC

\* expired / total >= ExpiryThreshold
ReachesThreshold(total, expired) == expired * ThresholdDen >= ThresholdNum * total

\* C15 (as stated; WorkerSpec): a cycle goes on to its one HardDeleteBatch exactly when
\* the sample has total > 0 and expired/total >= ExpiryThreshold, and skips otherwise;
\* so a sample of a store whose TTL rows are all expired (marker <= now) leads to a
\* batch, and one of a store whose TTL rows are all live leads to none.
C15_CleanupDecision ==
    [][/\ (wpc = "decide" /\ wpc' # wpc) =>
             /\ wpc' = "clean" <=>
                   (wloc.total > 0 /\ ReachesThreshold(wloc.total, wloc.expired))
             /\ wpc' # "clean" => (wpc' = "select" /\ rows' = rows)
       /\ (wpc = "clean" /\ wpc' # wpc) => (wpc' = "select" /\ ret'.op = "runCycle")
       /\ (wpc = "sample" /\ wpc' = "decide") =>
             /\ (WithExpiry(rows) # {} /\ WithExpiry(rows) = Reclaimable(rows, now)) =>
                   (wloc'.total > 0 /\ ReachesThreshold(wloc'.total, wloc'.expired))
             /\ Reclaimable(rows, now) = {} =>
                   (wloc'.total = 0 \/ ~ReachesThreshold(wloc'.total, wloc'.expired))]_vars

\* The step is a store call of a worker cycle that failed.
CycleFails == wpc \in {"sample", "clean"} /\ wpc' # wpc /\ ret'.raised # NoErr

\* C16 (WorkerSpec): a SampleExpiredKeys or HardDeleteBatch failure inside a cycle ends
\* that cycle without a batch taking effect and leaves the loop waiting in its select,
\* where a tick starts the next cycle; the loop stops only from its select with stopCh
\* closed, never on a cycle failure.
C16_CycleFailureNotFatal ==
    [][/\ CycleFails => (wpc' = "select" /\ rows' = rows)
       /\ (wpc = "select" /\ tickC) => ENABLED SelectTick
       /\ (wpc' = "stopped" /\ wpc # "stopped") =>
             (wpc = "select" /\ stopCh = "closed" /\ ret'.raised = NoErr)]_vars

\* A cycle's sample has just failed and the loop is waiting, a tick pending, not stopped.
C16_Witness ==
    /\ ret.op = "SampleExpiredKeys" /\ ret.raised # NoErr
    /\ wpc = "select" /\ tickC /\ stopCh = "open"

\* C17 (WorkerSpec): a key never passed to Set or SetWithTTL has no row and no cache
\* entry in any reachable state, whatever calls and worker cycles ran on other keys, and
\* a Get of it whose store read did not fail returns Absent with no error.
C17_NeverSetKeyAbsent ==
    /\ \A k \in Keys : passed[k] = {} => (k \notin DOMAIN rows /\ k \notin DOMAIN cache)
    /\ (ret.op = "Get" /\ passed[ret.key] = {} /\ ret.raised = NoErr) =>
          (ret.val = <<>> /\ ret.err = NoErr)

\* A Get of a never-set key returned Absent after a Delete of that key, or beside
\* another key that has a row.
C17_Witness ==
    /\ ret.op = "Get" /\ passed[ret.key] = {} /\ ret.val = <<>> /\ ret.err = NoErr
    /\ lastWrite[ret.key].op = "Delete" \/ DOMAIN rows # {}

\* The store has held a row of key k with a TTL marker or the tombstone.
HadExpiry(k) == \E r \in committed[k] : r.expires_at # NoTime

\* C18 (SeqSpec): while the last successful write to k is a Set(k, v), also when k was
\* tombstoned, expired or under a TTL before: the row of k is (v, no expiry); once the
\* Set has returned a cache entry of k is (v, no expiry) and the Set returns with that
\* entry in place; every Get(k) whose store read does not fail returns v, at any time.
C18_SetClearsExpiry ==
    \A k \in Keys :
        lastWrite[k].op = "Set" =>
            /\ k \in DOMAIN rows /\ rows[k] = Row(lastWrite[k].value, NoTime)
            /\ (k \in DOMAIN cache /\ \A t \in Threads : th[t].pc # "set_cache") =>
                  cache[k] = Entry(lastWrite[k].value, NoTime)
            /\ (ret.op = "Set" /\ ret.key = k /\ ret.err = NoErr) => k \in DOMAIN cache
            /\ (ret.op = "Get" /\ ret.key = k /\ ret.raised = NoErr) =>
                  ret.val = <<lastWrite[k].value>>

\* A Get returned the value of a Set at a later time, cache-cold, for a key whose row
\* carried a tombstone or a TTL before the Set.
C18_Witness ==
    /\ ret.op = "Get" /\ ret.src = "db" /\ ret.val # <<>>
    /\ lastWrite[ret.key].op = "Set"
    /\ HadExpiry(ret.key)
    /\ now = MaxTime

\* C19 (as stated; SeqSpec): Store.SoftDelete(k) upserts the tombstone: after it the
\* store holds a row for k with marker TombstoneTime, whether or not k had a row, and a
\* second SoftDelete(k) changes nothing.
C19_SoftDeleteUpsertsTombstone ==
    [][\A k \in Keys :
          Deleted(k) =>
              /\ k \in DOMAIN rows'
              /\ rows'[k].expires_at = <<TombstoneTime>>
              /\ SoftDelete(rows', k) = rows']_vars

\* C19 (amended; SeqSpec): Store.SoftDelete(k) updates in place: a row of k gets the
\* marker TombstoneTime and keeps its value, a key without a row gets none and the store
\* is unchanged; other rows are untouched and a second SoftDelete(k) changes nothing.
C19_SoftDeleteUpdatesTombstone ==
    [][\A k \in Keys :
          Deleted(k) =>
              /\ IF k \in DOMAIN rows
                 THEN rows' = [rows EXCEPT ![k].expires_at = <<TombstoneTime>>]
                 ELSE rows' = rows
              /\ SoftDelete(rows', k) = rows']_vars

\* A Delete has returned without error for a key that has no row: none was created.
C19_Witness ==
    /\ ret.op = "Delete" /\ ret.err = NoErr
    /\ ret.key \notin DOMAIN rows

\* C20 (WorkerSpec): ForceCleanup is one HardDeleteBatch(DeleteBatchSize) and nothing
\* else: in any worker state and at any expired ratio it removes DeleteBatchSize
\* reclaimable rows, or all of them when there are fewer, and returns their number with
\* no error; when the store fails it removes nothing and returns the store's error; it
\* samples nothing and leaves the worker loop, its locals and the cache as they are.
C20_ForceCleanupOneBatch ==
    [][ret'.op = "ForceCleanup" =>
          /\ <<wpc, tickC, stopCh, wloc>>' = <<wpc, tickC, stopCh, wloc>>
          /\ cache' = cache
          /\ IF ret'.raised # NoErr
             THEN rows' = rows /\ ret'.err = ret'.raised /\ ret'.val = <<0>>
             ELSE /\ ret'.err = NoErr
                  /\ (DOMAIN rows \ DOMAIN rows') \in BatchChoices(rows, now, DeleteBatchSize)
                  /\ rows' = [k \in DOMAIN rows' |-> rows[k]]
                  /\ ret'.val = <<Cardinality(DOMAIN rows \ DOMAIN rows')>>]_vars

\* ForceCleanup removed a row on a worker that has stopped.
C20_Witness ==
    /\ ret.op = "ForceCleanup" /\ ret.val = <<1>> /\ ret.err = NoErr
    /\ wpc = "stopped"

\* C21 (StopSpec): once Stop has been called on a started worker, the loop reaches
\* "stopped" from wherever it was (waiting, sampling, deciding, cleaning), and "stopped"
\* is terminal: the loop never leaves it, so no cycle runs again.
C21_StopReachesStopped ==
    /\ (stopCh = "closed" /\ wpc # "new") ~> (wpc = "stopped")
    /\ [][wpc = "stopped" => (wpc' = "stopped" /\ ~CycleBegins)]_vars

\* The loop has stopped after a Stop that came while a tick was pending, and the tick
\* is still in the channel.
C21_Witness == wpc = "stopped" /\ stopCh = "closed" /\ tickC

\* The cache entry e carries an expiry that has passed at time t: the marker is strictly
\* before t (at t equal to the marker the cache still serves the entry, C11).
ExpiryPassed(e, t) == e.ExpiresAt # NoTime /\ e.ExpiresAt[1] < t

\* C22 (Spec): a Get that finds a cache entry whose expiry has passed never serves it:
\* it goes on to the best-effort SoftDelete, which on failure changes no row and is not
\* returned, then removes the entry and returns Absent with no error, whether the
\* SoftDelete succeeded or failed.
C22_ExpiredEntryGivesAbsent ==
    [][/\ (calls' = calls + 1 /\ ret'.op = "Get" /\ ret'.val # <<>>) =>
             ~ExpiryPassed(cache[ret'.key], now)
       /\ \A t \in Threads :
             /\ (th[t].pc = "idle" /\ th'[t].op = "Get" /\ th'[t].key \in DOMAIN cache
                   /\ ExpiryPassed(cache[th'[t].key], now)) =>
                   th'[t].pc = "get_softdel"
             /\ (th[t].pc = "get_softdel" /\ th'[t] # th[t]) =>
                   /\ th'[t].pc = "get_cachedel"
                   /\ th'[t].err # NoErr => rows' = rows
             /\ (th[t].pc \in {"get_softdel", "get_cachedel"} /\ th'[t].pc = "idle") =>
                   /\ ret'.op = "Get" /\ ret'.val = <<>> /\ ret'.err = NoErr
                   /\ ret'.key = th[t].key
                   /\ ret'.key \notin DOMAIN cache']_vars

\* A Get returned Absent with no error from an expired cache entry although its
\* SoftDelete failed; the row is still as the SetWithTTL wrote it.
C22_Witness ==
    /\ ret.op = "Get" /\ ret.src = "cache" /\ ret.val = <<>> /\ ret.err = NoErr
    /\ ret.raised # NoErr
    /\ ret.key \in DOMAIN rows /\ rows[ret.key].expires_at # <<TombstoneTime>>

\* The rows a step removes from the store.
Removed == DOMAIN rows \ DOMAIN rows'

\* The rows whose marker is non-absent and <= t, written out from the data model.
MarkerReached(r, t) ==
    {k \in DOMAIN r : r[k].expires_at # NoTime /\ r[k].expires_at[1] <= t}

\* C23 (WorkerSpec): a HardDeleteBatch(DeleteBatchSize) that succeeds removes at most
\* DeleteBatchSize rows, only rows whose marker is non-absent and <= now, changes no
\* other row and returns the number it removed; it removes at least one row when such a
\* row exists, and all of them when they are no more than DeleteBatchSize.
C23_BatchRemovesUpToLimit ==
    [][(ret'.op \in BatchOps /\ ret'.raised = NoErr) =>
          /\ Cardinality(Removed) <= DeleteBatchSize
          /\ Removed \subseteq MarkerReached(rows, now)
          /\ rows' = [k \in DOMAIN rows \ Removed |-> rows[k]]
          /\ ret'.val = <<Cardinality(Removed)>>
          /\ MarkerReached(rows, now) # {} => Removed # {}
          /\ Cardinality(MarkerReached(rows, now)) <= DeleteBatchSize =>
                Removed = MarkerReached(rows, now)]_vars

\* A batch removed DeleteBatchSize rows and left a reclaimable row behind.
C23_Witness ==
    /\ ret.op \in BatchOps /\ ret.val = <<DeleteBatchSize>> /\ ret.err = NoErr
    /\ MarkerReached(rows, now) # {}

\* The rows that carry a non-absent expiry marker.
MarkerPresent(r) == {k \in DOMAIN r : r[k].expires_at # NoTime}

\* C24 (as stated; WorkerSpec): a SampleExpiredKeys(SampleSize) that succeeds returns
\* total = min(SampleSize, number of rows with a marker) and expired = the number of
\* rows of some sample of that size, drawn among the rows with a marker, whose marker is
\* <= now (tombstones included), so 0 <= expired <= total <= SampleSize.
C24_SampleCountsExpired ==
    [][(wpc = "sample" /\ wpc' = "decide") =>
          /\ wloc'.total = Min(SampleSize, Cardinality(MarkerPresent(rows)))
          /\ \E S \in SUBSET MarkerPresent(rows) :
                /\ Cardinality(S) = wloc'.total
                /\ wloc'.expired = Cardinality(S \cap MarkerReached(rows, now))
          /\ 0 <= wloc'.expired /\ wloc'.expired <= wloc'.total
          /\ wloc'.total <= SampleSize]_vars

\* The step is one of the worker: of its loop, of a cycle, or a ForceCleanup.
WorkerActs ==
    \/ <<wpc, tickC, stopCh, wloc>>' # <<wpc, tickC, stopCh, wloc>>
    \/ ret'.op \in BatchOps \cup {"SampleExpiredKeys"}

\* C25 (WorkerSpec): no step of the worker loop, of a cycle or of ForceCleanup changes
\* the cache; and a Get of a key that was written and whose row has been removed returns
\* a value from a cache entry left behind only while that entry's expiry has not passed.
C25_WorkerLeavesCache ==
    [][/\ WorkerActs => cache' = cache
       /\ (ret'.op = "Get" /\ ret'.val # <<>> /\ ret'.key \notin DOMAIN rows') =>
             /\ ret'.src = "cache"
             /\ ~ExpiryPassed(cache[ret'.key], now)]_vars

\* A Get found the entry left behind for a row the worker removed, its expiry passed,
\* and returned Absent.
C25_Witness ==
    /\ ret.op = "Get" /\ ret.src = "cache" /\ ret.val = <<>>
    /\ passed[ret.key] # {}
    /\ ret.key \notin DOMAIN rows

\* Key k was written through Set only: every row the store has held for k has no expiry.
OnlySet(k) == \A r \in committed[k] : r.expires_at = NoTime

\* C26 (as stated; Spec): when every concurrent Set(k, .) and Get(k) has returned, for a
\* key written through Set only, a cache entry of k holds the value of the store's row
\* of k.
C26_CacheAgreesAtQuiescence ==
    \A k \in Keys :
        (AllIdle /\ OnlySet(k) /\ k \in DOMAIN cache) =>
            (k \in DOMAIN rows /\ cache[k].Value = rows[k].value)

\* C27 (as stated; Spec): the SoftDelete step of a Get that found an expired cache entry
\* leaves the row of its key as it is when that row is logically present at that moment,
\* whatever Set/SetWithTTL calls run beside it.
C27_SoftDeleteSparesLiveRows ==
    [][\A t \in Threads :
          (/\ th[t].pc = "get_softdel" /\ th'[t].pc = "get_cachedel"
           /\ th[t].key \in DOMAIN rows
           /\ LogicallyPresent(rows[th[t].key].expires_at, now)) =>
              rows'[th[t].key] = rows[th[t].key]]_vars

\* No Engine call is in progress and none begins any more.
WritesOver == AllIdle /\ (calls = MaxWorkerCalls \/ now > MaxTime)

\* Rows with a live deadline: expires_at IS NOT NULL AND expires_at > NOW().
LiveTTLRows == {k \in DOMAIN rows : rows[k].expires_at # NoTime /\ rows[k].expires_at[1] > now}

\* C28 (ProgressSpec): once the worker runs and the writes are over, every row that is
\* tombstoned or TTL-expired is removed from the store in the end, whether or not rows
\* with a live deadline sit beside it.
C28_ReclamationProgress ==
    \A k \in Keys :
        (wpc # "new" /\ WritesOver /\ k \in MarkerReached(rows, now)) ~> (k \notin DOMAIN rows)

\* A cycle removed an expired row while a row with a live deadline sat beside it.
C28_Witness ==
    /\ ret.op = "runCycle" /\ ret.val = <<1>>
    /\ WritesOver
    /\ LiveTTLRows # {}

====
